---- MODULE Spec2Model ----
(***************************************************************************)
(* A model of scripts/chatterbox_server.py: the text chunker               *)
(* (split_text_into_chunks), the model holder (load_model and the globals  *)
(* tts and device) and the request handlers /health, /speak and /shutdown. *)
(*                                                                         *)
(* A text is a sequence of one-character strings.  Inside the chunker each *)
(* character carries the index it has in the input text (pos), so that a   *)
(* chunk can be compared with the slice of the input it was cut from; the  *)
(* space that line 78 inserts between two sentences is not a character of  *)
(* the input and carries pos 0.  Every length test of the code looks at    *)
(* the characters only.                                                    *)
(***************************************************************************)
EXTENDS Integers, Sequences, FiniteSets, TLC

\* ------------------------------------------------------------- bounds
\* longest input text of the chunker specification
MaxTextLen == 5
\* largest max_chars of the chunker specification
MaxChars == 3
\* longest text of a /speak request
MaxReqLen == 4
\* largest max_chunk_size of a /speak request
MaxChunkSize == 2
\* longest waveform tts.generate returns, in samples
MaxSegLen == 2

Alphabet == {"a", " ", ".", ","}
Whitespace == {" "}
SentenceEnd == {".", "!", "?"}
Comma == ","

None == "None"

RECURSIVE SeqsUpTo(_)
SeqsUpTo(n) ==
    IF n = 0 THEN {<<>>}
    ELSE LET S == SeqsUpTo(n - 1)
         IN  S \cup {Append(s, c) : s \in {t \in S : Len(t) = n - 1}, c \in Alphabet}

Min(S) == CHOOSE x \in S : \A y \in S : x <= y

\* ------------------------------------------------------------ strings
\* The characters of the input, each with its index.
Tag(s) == [i \in 1..Len(s) |-> [ch |-> s[i], pos |-> i]]
\* The characters alone.
Chars(s) == [i \in 1..Len(s) |-> s[i].ch]
\* The " " of line 78.
JoinSpace == [ch |-> " ", pos |-> 0]

RECURSIVE lstrip(_)
lstrip(s) == IF s # <<>> /\ Head(s).ch \in Whitespace THEN lstrip(Tail(s)) ELSE s

RECURSIVE rstrip(_)
rstrip(s) ==
    IF s # <<>> /\ s[Len(s)].ch \in Whitespace
    THEN rstrip(SubSeq(s, 1, Len(s) - 1))
    ELSE s

\* str.strip()
strip(s) == rstrip(lstrip(s))

\* The last index of the run of whitespace that starts at index i (i - 1 when
\* s[i] is no whitespace): what \s+ and \s* consume, greedily.
RECURSIVE RunEnd(_, _)
RunEnd(s, i) ==
    IF i <= Len(s) /\ s[i].ch \in Whitespace THEN RunEnd(s, i + 1) ELSE i - 1

\* re.split(r'(?<=[.!?])\s+', s): a boundary is a maximal run of whitespace
\* whose first character follows one of . ! ?
RECURSIVE sentence_split(_)
sentence_split(s) ==
    LET B == {i \in 2..Len(s) : s[i].ch \in Whitespace /\ s[i - 1].ch \in SentenceEnd}
    IN  IF B = {} THEN <<s>>
        ELSE LET i == Min(B)
             IN  <<SubSeq(s, 1, i - 1)>>
                 \o sentence_split(SubSeq(s, RunEnd(s, i) + 1, Len(s)))

\* re.split(r',\s*', s): a boundary is a comma and the whitespace after it.
RECURSIVE comma_split(_)
comma_split(s) ==
    LET B == {i \in 1..Len(s) : s[i].ch = Comma}
    IN  IF B = {} THEN <<s>>
        ELSE LET i == Min(B)
             IN  <<SubSeq(s, 1, i - 1)>>
                 \o comma_split(SubSeq(s, RunEnd(s, i + 1) + 1, Len(s)))

\* ------------------------------------------------------------ chunker
\* Lines 86-91: every part is appended stripped, whatever its length.
append_parts(chunks, parts) ==
    chunks \o [k \in 1..Len(parts) |-> strip(parts[k])]

\* Lines 80-81.
flush(chunks, current_chunk) ==
    IF current_chunk # <<>> THEN Append(chunks, current_chunk) ELSE chunks

\* One pass of the loop of line 76 over `sentence`, from the loop state
\* st = [chunks, current_chunk].  The branch of line 83 leaves current_chunk
\* as it is.
loop_body(st, sentence, max_chars) ==
    IF Len(st.current_chunk) + Len(sentence) + 1 <= max_chars
    THEN [st EXCEPT !.current_chunk = strip(st.current_chunk \o <<JoinSpace>> \o sentence)]
    ELSE LET flushed == flush(st.chunks, st.current_chunk)
         IN  IF Len(sentence) > max_chars
             THEN [st EXCEPT !.chunks = append_parts(flushed, comma_split(sentence))]
             ELSE [chunks |-> flushed, current_chunk |-> sentence]

\* Lines 95-98; `text` is the argument as given, not stripped.
finish(st, text) ==
    LET chunks == flush(st.chunks, st.current_chunk)
    IN  IF chunks # <<>> THEN chunks ELSE <<text>>

RECURSIVE run_loop(_, _, _, _)
run_loop(st, sentences, k, max_chars) ==
    IF k > Len(sentences) THEN st
    ELSE run_loop(loop_body(st, sentences[k], max_chars), sentences, k + 1, max_chars)

EmptyLoopState == [chunks |-> <<>>, current_chunk |-> <<>>]

\* split_text_into_chunks(text, max_chars), text a tagged text.
split_text_into_chunks(text, max_chars) ==
    finish(run_loop(EmptyLoopState, sentence_split(strip(text)), 1, max_chars), text)

\* ------------------------------------------------------- model holder
Devices == {"mps", "cpu"}
\* tts.sr, the sample rate of the loaded model
SampleRates == {5, 10}

\* The global tts before a load: None.
NoModel == [id |-> 0, sr |-> 0]

\* What a run of the body of load_model can do: the imports of lines 44-54
\* raise; the device is chosen and from_pretrained raises; or both succeed.
LoadOutcomes ==
    [kind : {"import_error"}, device : {None}, sr : {0}]
        \cup [kind : {"pretrained_error"}, device : Devices, sr : {0}]
        \cup [kind : {"ok"}, device : Devices, sr : SampleRates]

\* What a load can do in the state g: anything before the first model is
\* there; after it, what the load that succeeded did (speak runs none then).
LoadChoices(g) ==
    IF g.tts = NoModel THEN LoadOutcomes
    ELSE {[kind |-> "ok", device |-> g.device, sr |-> g.tts.sr]}

\* Lines 40-59 on the globals g = [tts, device, loads]; loads counts the
\* returns of from_pretrained.  Line 56 assigns device before line 57 calls
\* from_pretrained.
load_model_body(g, o) ==
    CASE o.kind = "import_error" -> [g |-> g, raised |-> TRUE]
      [] o.kind = "pretrained_error" ->
            [g |-> [g EXCEPT !.device = o.device], raised |-> TRUE]
      [] o.kind = "ok" ->
            [g |-> [tts |-> [id |-> g.loads + 1, sr |-> o.sr],
                    device |-> o.device,
                    loads |-> g.loads + 1],
             raised |-> FALSE]

\* load_model(), lines 33-59.
load_model(g, o) ==
    IF g.tts # NoModel THEN [g |-> g, raised |-> FALSE] ELSE load_model_body(g, o)

\* ------------------------------------------------------------- /speak
ensure_loaded_unguarded(g, o) == load_model_body(g, o)

\* Lines 105-106.
ensure_loaded(g, o) ==
    IF g.tts = NoModel THEN load_model(g, o) ELSE [g |-> g, raised |-> FALSE]

NoResponse ==
    [route |-> "none", status |-> 0, json |-> FALSE, error |-> "",
     model_loaded |-> FALSE, device |-> None, audio_path |-> FALSE,
     sample_rate |-> 0, chunks |-> 0, segments |-> <<>>, audio |-> <<>>,
     file_created |-> FALSE]

\* jsonify({"error": message}), status
json_error(route, status, message) ==
    [NoResponse EXCEPT !.route = route, !.status = status, !.json = TRUE,
                       !.error = message]

\* An exception that leaves the view function: the framework answers 500 with
\* its own error page, which is no JSON and has no error field.
unhandled_error(route) ==
    [NoResponse EXCEPT !.route = route, !.status = 500]

\* Line 125: the chunks that are synthesized.
spoken_chunks(chunks) == SelectSeq(chunks, LAMBDA c : strip(c) # <<>>)

\* Line 133: int(0.2 * tts.sr); 0.2 * sr is never below the exact fifth.
silence_samples(sr) == (2 * sr) \div 10

\* A waveform is the sequence of its samples; a sample of the k-th segment is
\* written k and a sample of silence 0.
wav(k, n) == [i \in 1..n |-> k]

silence(sr) == wav(0, silence_samples(sr))

combine_trailing_silence(audio_segments, sil, i) ==
    LET RECURSIVE go(_)
        go(k) == IF k > Len(audio_segments) THEN <<>>
                 ELSE <<audio_segments[k], sil>> \o go(k + 1)
    IN  go(i)

\* Lines 137-141, from the i-th segment on.
combine_segments(audio_segments, sil, i) ==
    LET RECURSIVE go(_)
        go(k) == IF k > Len(audio_segments) THEN <<>>
                 ELSE <<audio_segments[k]>>
                      \o (IF k < Len(audio_segments) THEN <<sil>> ELSE <<>>)
                      \o go(k + 1)
    IN  go(i)

\* torch.cat(buffers, dim=1)
RECURSIVE torch_cat(_)
torch_cat(buffers) ==
    IF buffers = <<>> THEN <<>> ELSE Head(buffers) \o torch_cat(Tail(buffers))

\* What writing the temporary file can do: NamedTemporaryFile raises, ta.save
\* raises after the file was created, or both succeed.
IoOutcomes == {"ok", "tmpfile_error", "save_error"}

\* speak(), lines 101-159, on the globals g and the request r.  o is what a
\* load does if one runs, gens[k] the length of the waveform the k-th call of
\* tts.generate returns (0: the call raises), io what writing the file does.
speak(g, r, o, gens, io) ==
    LET ld == ensure_loaded(g, o)
    IN  IF ld.raised THEN [g |-> ld.g, resp |-> unhandled_error("speak")]
        ELSE IF r.text = <<>>
        THEN [g |-> ld.g, resp |-> json_error("speak", 400, "No text provided")]
        ELSE
        LET chunks == split_text_into_chunks(Tag(r.text), r.max_chunk_size)
            n == Len(spoken_chunks(chunks))
            sr == ld.g.tts.sr
            audio_segments == [k \in 1..n |-> wav(k, gens[k])]
            combined_audio == torch_cat(combine_segments(audio_segments, silence(sr), 1))
        IN  IF \E k \in 1..n : gens[k] = 0
            THEN [g |-> ld.g, resp |-> json_error("speak", 500, "generate failed")]
            ELSE IF n = 0
            THEN [g |-> ld.g, resp |-> json_error("speak", 500, "No audio generated")]
            ELSE IF io = "tmpfile_error"
            THEN [g |-> ld.g, resp |-> json_error("speak", 500, "tempfile failed")]
            ELSE IF io = "save_error"
            THEN [g |-> ld.g,
                  resp |-> [json_error("speak", 500, "save failed")
                                EXCEPT !.file_created = TRUE]]
            ELSE [g |-> ld.g,
                  resp |-> [NoResponse EXCEPT
                                !.route = "speak", !.status = 200, !.json = TRUE,
                                !.audio_path = TRUE, !.file_created = TRUE,
                                !.sample_rate = sr,
                                !.chunks = Len(chunks),
                                !.segments = [k \in 1..n |-> gens[k]],
                                !.audio = combined_audio]]

\* health(), lines 61-64.
health(g) ==
    [NoResponse EXCEPT !.route = "health", !.status = 200, !.json = TRUE,
                       !.model_loaded = (g.tts # NoModel), !.device = g.device]

\* The requests a client sends: JSON bodies, max_chunk_size >= 1; a body
\* without text reads as text "".
NoRequest == [route |-> "none", text |-> <<>>, max_chunk_size |-> 0]

Requests ==
    [route : {"health", "shutdown"}, text : {<<>>}, max_chunk_size : {0}]
        \cup [route : {"speak"}, text : SeqsUpTo(MaxReqLen),
              max_chunk_size : 1..MaxChunkSize]

VARIABLES
    \* the chunker, one call of it: its arguments, its locals, its result
    text, max_chars, sentences, idx, current_chunk, chunks, result, pc,
    \* the process: "start", "serving" or "dead"
    proc,
    \* the globals of lines 30-31, and the number of models instantiated
    tts, device, loads,
    \* whether main() wrote the PID file
    pid_file,
    \* the request being handled and the last response sent
    req, resp

chunker_vars == <<text, max_chars, sentences, idx, current_chunk, chunks, result, pc>>

server_vars == <<proc, tts, device, loads, pid_file, req, resp>>

vars == <<chunker_vars, server_vars>>

Globals == [tts |-> tts, device |-> device, loads |-> loads]

\* The module as imported: lines 27-31.
ServerStart ==
    /\ proc = "start"
    /\ tts = NoModel
    /\ device = None
    /\ loads = 0
    /\ pid_file = FALSE
    /\ req = NoRequest
    /\ resp = NoResponse

ChunkerIdle ==
    /\ text = <<>>
    /\ max_chars = 1
    /\ sentences = <<>>
    /\ idx = 0
    /\ current_chunk = <<>>
    /\ chunks = <<>>
    /\ result = None
    /\ pc = "idle"

ChunkInit ==
    /\ text \in {Tag(s) : s \in SeqsUpTo(MaxTextLen)}
    /\ max_chars \in 1..MaxChars
    /\ sentences = <<>>
    /\ idx = 0
    /\ current_chunk = <<>>
    /\ chunks = <<>>
    /\ result = None
    /\ pc = "call"
    /\ ServerStart

\* Lines 71-74.
SplitSentences ==
    /\ pc = "call"
    /\ sentences' = sentence_split(strip(text))
    /\ idx' = 1
    /\ chunks' = <<>>
    /\ current_chunk' = <<>>
    /\ pc' = "loop"
    /\ UNCHANGED <<text, max_chars, result, server_vars>>

\* Lines 76-93, one sentence.
LoopStep ==
    /\ pc = "loop"
    /\ idx <= Len(sentences)
    /\ LET st == loop_body([chunks |-> chunks, current_chunk |-> current_chunk],
                           sentences[idx], max_chars)
       IN  /\ chunks' = st.chunks
           /\ current_chunk' = st.current_chunk
    /\ idx' = idx + 1
    /\ UNCHANGED <<text, max_chars, sentences, result, pc, server_vars>>

\* Lines 95-98.
Return ==
    /\ pc = "loop"
    /\ idx > Len(sentences)
    /\ result' = finish([chunks |-> chunks, current_chunk |-> current_chunk], text)
    /\ pc' = "done"
    /\ UNCHANGED <<text, max_chars, sentences, idx, current_chunk, chunks, server_vars>>

ChunkNext == SplitSentences \/ LoopStep \/ Return

ChunkSpec == ChunkInit /\ [][ChunkNext]_vars

\* The stepwise run and the function agree.
StepwiseIsFunction == pc = "done" => result = split_text_into_chunks(text, max_chars)

\* ------------------------------------------------------------- server
Init == ChunkerIdle /\ ServerStart

SetGlobals(g) ==
    /\ tts' = g.tts
    /\ device' = g.device
    /\ loads' = g.loads

\* main(), lines 174-189: the preload; a load that raises ends the process
\* before the PID file is written and before the server runs.
MainPreload ==
    /\ proc = "start"
    /\ \E o \in LoadChoices(Globals) :
          LET ld == load_model(Globals, o)
          IN  /\ SetGlobals(ld.g)
              /\ proc' = IF ld.raised THEN "dead" ELSE "serving"
              /\ pid_file' = ~ld.raised
    /\ UNCHANGED <<req, resp, chunker_vars>>

\* The module imported and app served by another host (lines 27, 191-192):
\* main() does not run and nothing is preloaded.
ServeImported ==
    /\ proc = "start"
    /\ proc' = "serving"
    /\ UNCHANGED <<tts, device, loads, pid_file, req, resp, chunker_vars>>

\* A request arrives; threaded=False (line 189): one request at a time.
Receive ==
    /\ proc = "serving"
    /\ req = NoRequest
    /\ req' \in Requests
    /\ resp' = NoResponse
    /\ UNCHANGED <<proc, tts, device, loads, pid_file, chunker_vars>>

HandleHealth ==
    /\ proc = "serving"
    /\ req.route = "health"
    /\ resp' = health(Globals)
    /\ req' = NoRequest
    /\ UNCHANGED <<proc, tts, device, loads, pid_file, chunker_vars>>

HandleSpeak ==
    /\ proc = "serving"
    /\ req.route = "speak"
    /\ \E o \in LoadChoices(Globals) :
       \E gens \in [1..Len(spoken_chunks(split_text_into_chunks(Tag(req.text),
                                                                req.max_chunk_size)))
                      -> 0..MaxSegLen] :
       \E io \in IoOutcomes :
          LET out == speak(Globals, req, o, gens, io)
          IN  /\ SetGlobals(out.g)
              /\ resp' = out.resp
    /\ req' = NoRequest
    /\ UNCHANGED <<proc, pid_file, chunker_vars>>

\* shutdown(), lines 161-165: SIGTERM to the own process; the response may or
\* may not leave before the process ends.
HandleShutdown ==
    /\ proc = "serving"
    /\ req.route = "shutdown"
    /\ proc' = "dead"
    /\ resp' \in {NoResponse,
                  [NoResponse EXCEPT !.route = "shutdown", !.status = 200, !.json = TRUE]}
    /\ req' = NoRequest
    /\ UNCHANGED <<tts, device, loads, pid_file, chunker_vars>>

Next ==
    \/ MainPreload
    \/ ServeImported
    \/ Receive
    \/ HandleHealth
    \/ HandleSpeak
    \/ HandleShutdown

Spec == Init /\ [][Next]_vars

\* ------------------------------------------------- chunker properties
NonWhitespace(s) == SelectSeq(s, LAMBDA c : c.ch \notin Whitespace)

RECURSIVE JoinChunks(_)
\* The chunks in order, a single space between two of them.
JoinChunks(cs) ==
    IF cs = <<>> THEN <<>>
    ELSE IF Len(cs) = 1 THEN cs[1]
    ELSE cs[1] \o <<JoinSpace>> \o JoinChunks(Tail(cs))

\* The input positions a chunk holds, in the chunk's order.
Positions(c) == LET real == SelectSeq(c, LAMBDA x : x.pos > 0)
                IN  [i \in 1..Len(real) |-> real[i].pos]

StrictlyIncreasing(p) == \A i \in 1..(Len(p) - 1) : p[i] < p[i + 1]

\* A chunk is a slice of the input up to whitespace: its characters are
\* characters of the input in increasing position, and everything of the
\* input it skips between its first and its last character is whitespace.
IsSliceOf(c, t) ==
    LET p == Positions(c)
    IN  /\ StrictlyIncreasing(p)
        /\ \A i \in 1..Len(c) : c[i].pos > 0 => t[c[i].pos] = c[i]
        /\ \A i \in 1..(Len(p) - 1) :
              \A q \in (p[i] + 1)..(p[i + 1] - 1) : t[q].ch \in Whitespace

\* The chunks that hold a character of sentence s.
ChunksHolding(cs, s) ==
    {k \in 1..Len(cs) : \E i \in 1..Len(cs[k]) : \E j \in 1..Len(s) : cs[k][i] = s[j]}

\* C1: joining the chunks in order, single spaces between them, gives the
\* text up to whitespace: no non-whitespace character of the text is dropped,
\* none is added and none is repeated.
C1_ContentPreserved ==
    pc = "done" =>
        Chars(NonWhitespace(JoinChunks(result))) = Chars(NonWhitespace(text))

\* C2: the chunks come in the left-to-right order of the input: every chunk is
\* a slice of the input, the positions of the input run upwards through the
\* chunks from the first to the last, and every sentence that is not split on
\* commas is held by exactly one chunk.
C2_LeftToRightOrder ==
    pc = "done" =>
        /\ \A k \in 1..Len(result) : IsSliceOf(result[k], text)
        /\ StrictlyIncreasing(Positions(JoinChunks(result)))
        /\ \A j \in 1..Len(sentences) :
              (sentences[j] # <<>> /\ Len(sentences[j]) <= max_chars)
                  => Cardinality(ChunksHolding(result, sentences[j])) = 1

\* A chunk that is one comma-delimited part of a sentence longer than max_chars.
IsPartOfLongSentence(c) ==
    \E j \in 1..Len(sentences) :
        /\ Len(sentences[j]) > max_chars
        /\ \E p \in 1..Len(comma_split(sentences[j])) :
              strip(comma_split(sentences[j])[p]) = c

\* C6: a chunk is at most max_chars long, unless it is a comma-delimited part
\* of a sentence that is longer than max_chars.
C6_ChunkLength ==
    pc = "done" =>
        \A k \in 1..Len(result) :
            Len(result[k]) <= max_chars \/ IsPartOfLongSentence(result[k])

\* C8: for a text that is not empty after trimming, no chunk is empty or
\* whitespace only.
C8_NoEmptyChunk ==
    (pc = "done" /\ strip(text) # <<>>) =>
        \A k \in 1..Len(result) : strip(result[k]) # <<>>
\* -------------------------------------------------- server properties
RECURSIVE SumTo(_, _)
\* The sum of the first k entries of a sequence of numbers.
SumTo(lens, k) == IF k = 0 THEN 0 ELSE SumTo(lens, k - 1) + lens[k]

\* C3: the model is instantiated at most once, and once the global tts holds
\* a model no step changes the model or the device.
C3_LoadedOnceAndForAll ==
    [][/\ loads' <= 1
       /\ tts # NoModel => (tts' = tts /\ device' = device)]_vars

\* A loaded server has answered a /speak request with an error.
C3_Witness ==
    /\ proc = "serving"
    /\ tts # NoModel
    /\ loads = 1
    /\ resp.route = "speak"
    /\ resp.status = 500

\* C4: handling a /speak request with empty text answers 400 "No text
\* provided" and changes nothing: no load, no synthesis, no temporary file.
C4_EmptyTextChangesNothing ==
    [][(req.route = "speak" /\ req.text = <<>> /\ resp'.route = "speak")
          => /\ resp'.status = 400
             /\ resp'.error = "No text provided"
             /\ tts' = tts
             /\ device' = device
             /\ loads' = loads
             /\ resp'.segments = <<>>
             /\ ~resp'.file_created]_vars

\* C5: every /speak response that is no success is JSON with an error field,
\* with status 400 or 500.
C5_ErrorsAreJson ==
    (resp.route = "speak" /\ resp.status # 200)
        => /\ resp.json
           /\ resp.error # ""
           /\ resp.status \in {400, 500}

\* C7: the audio of a successful /speak is its segments in order, n >= 1 of
\* them, with sample_rate \div 5 samples of silence between two neighbours and
\* none before the first or after the last.
C7_AssembledWaveform ==
    (resp.route = "speak" /\ resp.status = 200) =>
        LET n == Len(resp.segments)
            sil == resp.sample_rate \div 5
            start(k) == SumTo(resp.segments, k - 1) + (k - 1) * sil
        IN  /\ n >= 1
            /\ Len(resp.audio) = SumTo(resp.segments, n) + (n - 1) * sil
            /\ \A k \in 1..n : \A i \in 1..resp.segments[k] :
                  resp.audio[start(k) + i] = k
            /\ \A k \in 1..(n - 1) : \A i \in 1..sil :
                  resp.audio[start(k) + resp.segments[k] + i] = 0

\* A success with at least two segments of unequal length and silence between them.
C7_Witness ==
    /\ resp.route = "speak"
    /\ resp.status = 200
    /\ Len(resp.segments) >= 2
    /\ resp.segments[1] # resp.segments[2]
    /\ resp.sample_rate >= 5

\* C9: /health reports a device only when it reports the model loaded.
C9_DeviceOnlyWhenLoaded ==
    resp.route = "health" => (resp.device # None => resp.model_loaded)

\* C10: the chunks value of a successful /speak is the number of segments
\* synthesized.
C10_ChunksCountsSegments ==
    (resp.route = "speak" /\ resp.status = 200) => resp.chunks = Len(resp.segments)
====
